---- MODULE Spec2Model ----
(***************************************************************************)
(* gsm-voice-routing.c as a state machine.                                 *)
(*                                                                         *)
(* The program is one thread.  main() runs statement by statement (pc);    *)
(* SIGINT/SIGTERM are delivered asynchronously between any two of its      *)
(* statements and run sighandler() on the same thread, so main() stands    *)
(* still while the handler is active and resumes only if the handler       *)
(* returns.                                                                *)
(***************************************************************************)
EXTENDS Integers, Sequences, FiniteSets, TLC

(* ------------------------------------------------------------------ *)
(* Bounds of the model                                                 *)
(* ------------------------------------------------------------------ *)

\* frames of one period in the model (the program's streams use 256)
MaxPeriod == 1

\* failed open attempts explored per open_route_stream_repeated call
MaxFail == 2

\* signals delivered in one run
MaxSignals == 2

(* ------------------------------------------------------------------ *)
(* Program constants                                                   *)
(* ------------------------------------------------------------------ *)

ERR_PCM_OPEN_FAILED == -1
ERR_HW_PARAMS_ANY == -2
ERR_HW_PARAMS_SET_ACCESS == -3
ERR_HW_PARAMS_SET_FORMAT == -4
ERR_HW_PARAMS_SET_CHANNELS == -5
ERR_HW_PARAMS_SET_RATE == -6
ERR_SW_PARAMS_CURRENT == -7
ERR_HW_PARAMS_SET_PERIOD_SIZE == -8
ERR_HW_PARAMS_SET_BUFFER_SIZE == -9
ERR_HW_PARAMS == -10
ERR_BUFFER_ALLOC_FAILED == -11
ERR_SW_PARAMS_SET_START_THRESHOLD == -12
ERR_SW_PARAMS_SET_STOP_THRESHOLD == -13
ERR_SW_PARAMS == -14
ERR_READ_OVERRUN == -15
ERR_READ == -16
ERR_SHORT_READ == -17
ERR_WRITE_UNDERRUN == -18
ERR_WRITE == -19
ERR_SHORT_WRITE == -20
ERR_TERMINATING == -21

\* errno values the device calls report
EPIPE == 32
EIO == 5

\* the usleep() argument of open_route_stream_repeated, in microseconds
RetrySleepUs == 1000 * 100

\* the four streams
Streams == {"p0", "p1", "r0", "r1"}

\* faulty variant: the local pair is opened first
OpenOrderLocalFirst == <<"p0", "r0", "p1", "r1">>

\* the order main() opens the streams in
OpenOrder == <<"p1", "r1", "p0", "r0">>

\* the order cleanup() closes them in
CleanupOrder == <<"p0", "p1", "r0", "r1">>

\* struct route_stream initialisers
period_size(s) == MaxPeriod
start_threshold(s) == IF s \in {"p0", "p1"} THEN 4 * MaxPeriod ELSE 0
stop_threshold(s) == IF s \in {"p0", "p1"} THEN 4 * MaxPeriod ELSE 0

\* compile-time echo configurations: USE_SPEEX_AEC, USE_WALKIE_TALKIE_AEC, neither
AecConfigs == {"speex", "walkie", "none"}

(* ------------------------------------------------------------------ *)
(* Sample data                                                         *)
(* ------------------------------------------------------------------ *)

\* 16-bit samples the capture devices deliver in the model
SampleVals == {500, 20000}

\* a sample of a malloc()ed buffer that nothing has written yet
Indet == 2 ^ 16

\* the contents a device or the echo canceller can produce for one period
Bufs(n) == [1..n -> SampleVals]

\* a fresh malloc()ed period buffer of n samples
UninitBuf(n) == [i \in 1..n |-> Indet]

\* the byte strings an indeterminate buffer can turn out to hold
Resolve(b) == {v \in [1..Len(b) -> SampleVals \cup {b[i] : i \in 1..Len(b)}] :
                 \A i \in 1..Len(b) : IF b[i] = Indet THEN v[i] \in SampleVals
                                                      ELSE v[i] = b[i]}

\* s16 storage of an int
S16(x) == ((x + 32768) % 65536) - 32768

Abs(x) == IF x < 0 THEN -x ELSE x

VARIABLES
    aec,                \* which echo code is compiled in
    pc,                 \* main(): next statement
    ctx,                \* main(): "start", "open", "loop" or "end"
    cur,                \* the stream of the call main() is in
    rc,                 \* main(): last return code
    started,            \* main(): started
    terminating,        \* global terminating
    logfile,            \* global logfile: "null", "open", "closed"
    handle,             \* s->handle: "null", "open", "stale" (closed, not reset)
    period_buffer,      \* s->period_buffer: "null", "alloc", "stale" (freed, not reset)
    period_buffer_size, \* s->period_buffer_size
    contents,           \* the samples in s->period_buffer
    dev,                \* PCM device state: "ok" or "xrun"
    aux_red_state,
    aux_green_state,
    echo_state,         \* "unset", "live", "destroyed"
    hpc,                \* "idle", or "handler" while sighandler() is on the stack
    status,             \* "running", "exit0", "crash"
    \* history of the run
    sigCount,           \* signals delivered
    cleanupCalls,       \* calls of cleanup()
    doubleRel,          \* a handle, buffer or FILE was released a second time
    echoDestroys,       \* calls of speex_echo_state_destroy
    fails,              \* failed attempts of the current open_route_stream_repeated
    sleptUs,            \* microseconds slept by the current open_route_stream_repeated
    closes,             \* close_route_stream calls of the current open_route_stream_repeated
    ioTick,             \* flips on every snd_pcm_readi / snd_pcm_writei
    wr,                 \* bytes handed to snd_pcm_writei in this iteration, per stream
    xfer,               \* the last transfer call: stream, device result and, once
                        \* the call has returned (kind "rd" / "wr"), return code
    iter,               \* this iteration: reads that returned 0, blink_aux called,
                        \* echo code runs, the buffers they read and what they
                        \* left in p1's buffer
    notified            \* "voice routing started" lines written

vars == <<aec, pc, ctx, cur, rc, started, terminating, logfile, handle,
          period_buffer, period_buffer_size, contents, dev, aux_red_state,
          aux_green_state, echo_state, hpc, status, sigCount, cleanupCalls,
          doubleRel, echoDestroys, fails, sleptUs, closes, ioTick, wr,
          xfer, iter, notified>>

\* variables grouped for UNCHANGED
streamVars == <<handle, period_buffer, period_buffer_size, contents, dev>>
ledVars == <<aux_red_state, aux_green_state>>
sigVars == <<terminating, hpc, status, sigCount>>
openHist == <<fails, sleptUs, closes>>
endHist == <<cleanupCalls, doubleRel, echoDestroys>>
iterHist == <<xfer, iter, notified>>

NoWrites == [s \in {"p0", "p1"} |-> <<>>]

\* no transfer call has returned since the last one was consumed
NoXfer == [kind |-> "none", s |-> "none", res |-> 0, ret |-> 0]

\* the history of an iteration at the loop head
IterStart == [rdOk |-> {}, blinked |-> FALSE, conds |-> 0, aecIn |-> {},
              aecOut |-> <<>>]

Init ==
    /\ aec \in AecConfigs
    /\ pc = "m_blink"
    /\ ctx = "start"
    /\ cur = "p1"
    /\ rc = 0
    /\ started = 0
    /\ terminating = 0
    /\ logfile = "null"
    /\ handle = [s \in Streams |-> "null"]
    /\ period_buffer = [s \in Streams |-> "null"]
    /\ period_buffer_size = [s \in Streams |-> 0]
    /\ contents = [s \in Streams |-> <<>>]
    /\ dev = [s \in Streams |-> "ok"]
    /\ aux_red_state = 0
    /\ aux_green_state = 0
    /\ echo_state = "unset"
    /\ hpc = "idle"
    /\ status = "running"
    /\ sigCount = 0
    /\ cleanupCalls = 0
    /\ doubleRel = FALSE
    /\ echoDestroys = 0
    /\ fails = 0
    /\ sleptUs = 0
    /\ closes = 0
    /\ ioTick = 0
    /\ wr = NoWrites
    /\ xfer = NoXfer
    /\ iter = IterStart
    /\ notified = 0

\* main() executes a statement only while no handler is on the stack
MainRuns == status = "running" /\ hpc = "idle"

(* ------------------------------------------------------------------ *)
(* err, set_aux_leds, blink_aux                                        *)
(* ------------------------------------------------------------------ *)

\* err(): the code a failed call returns
err(term, return_code) == IF term # 0 THEN ERR_TERMINATING ELSE return_code

\* set_aux_leds(red, green): the new <<aux_red_state, aux_green_state>>
set_aux_leds(red, green) == <<red, green>>

\* blink_aux(): same second as the last blink -> nothing, else toggle
blink_aux(sameSecond) ==
    IF sameSecond THEN <<aux_red_state, aux_green_state>>
    ELSE set_aux_leds(1 - aux_red_state, aux_red_state)

\* position of stream s in an order of the four streams
IndexIn(order, s) == CHOOSE i \in 1..Len(order) : order[i] = s

(* ------------------------------------------------------------------ *)
(* main(): start-up, lines 564-591                                     *)
(* ------------------------------------------------------------------ *)

\* blink_aux() after the handlers are registered; logfile is still NULL
main_blink ==
    /\ MainRuns /\ pc = "m_blink"
    /\ \E sameSecond \in BOOLEAN :
         /\ aux_red_state' = blink_aux(sameSecond)[1]
         /\ aux_green_state' = blink_aux(sameSecond)[2]
    /\ pc' = "m_logfile"
    /\ UNCHANGED <<iterHist, aec, ctx, cur, rc, started, logfile, streamVars, echo_state,
                   sigVars, openHist, endHist, ioTick, wr>>

\* logfile = stderr, or the file named by the environment; first log line; nice()
main_logfile ==
    /\ MainRuns /\ pc = "m_logfile"
    /\ logfile' = "open"
    /\ pc' = "m_echo"
    /\ UNCHANGED <<iterHist, aec, ctx, cur, rc, started, streamVars, ledVars, echo_state,
                   sigVars, openHist, endHist, ioTick, wr>>

\* speex_echo_state_init under USE_SPEEX_AEC; then the first open call
main_echo_init ==
    /\ MainRuns /\ pc = "m_echo"
    /\ echo_state' = IF aec = "speex" THEN "live" ELSE echo_state
    /\ pc' = "rep_enter"
    /\ ctx' = "open"
    /\ cur' = OpenOrder[1]
    /\ UNCHANGED <<iterHist, aec, rc, started, logfile, streamVars, ledVars,
                   sigVars, openHist, endHist, ioTick, wr>>

(* ------------------------------------------------------------------ *)
(* open_route_stream, lines 137-261                                    *)
(* ------------------------------------------------------------------ *)

\* the error kinds of the hardware-parameter steps, in the order of the code
HwParamErrors == {ERR_HW_PARAMS_ANY, ERR_HW_PARAMS_SET_ACCESS,
                  ERR_HW_PARAMS_SET_FORMAT, ERR_HW_PARAMS_SET_CHANNELS,
                  ERR_HW_PARAMS_SET_RATE, ERR_HW_PARAMS_SET_PERIOD_SIZE,
                  ERR_HW_PARAMS_SET_BUFFER_SIZE, ERR_HW_PARAMS}

\* the error kinds of the software-parameter steps stream s goes through
SwParamErrors(s) ==
    {ERR_SW_PARAMS_CURRENT, ERR_SW_PARAMS}
      \cup (IF start_threshold(s) > 0 THEN {ERR_SW_PARAMS_SET_START_THRESHOLD} ELSE {})
      \cup (IF stop_threshold(s) > 0 THEN {ERR_SW_PARAMS_SET_STOP_THRESHOLD} ELSE {})

\* snd_pcm_open: a negative result returns at once, s->handle as it was
snd_pcm_open_step ==
    /\ MainRuns /\ pc = "o_pcm_open"
    /\ \E r \in {0, -EIO} :
         /\ r = 0 \/ fails < MaxFail
         /\ IF r < 0
              THEN /\ rc' = err(terminating, ERR_PCM_OPEN_FAILED)
                   /\ pc' = "rep_check"
                   /\ handle' = handle
              ELSE /\ rc' = rc
                   /\ pc' = "o_hw"
                   /\ handle' = [handle EXCEPT ![cur] = "open"]
    /\ UNCHANGED <<iterHist, aec, ctx, cur, started, logfile, period_buffer,
                   period_buffer_size, contents, dev, ledVars, echo_state,
                   sigVars, openHist, endHist, ioTick, wr>>

\* snd_pcm_hw_params_any ... snd_pcm_hw_params: the first failing step returns
hw_params_step ==
    /\ MainRuns /\ pc = "o_hw"
    /\ \E code \in {0} \cup HwParamErrors :
         /\ code = 0 \/ fails < MaxFail
         /\ IF code # 0
              THEN rc' = err(terminating, code) /\ pc' = "rep_check"
              ELSE rc' = rc /\ pc' = "o_malloc"
    /\ UNCHANGED <<iterHist, aec, ctx, cur, started, logfile, streamVars, ledVars,
                   echo_state, sigVars, openHist, endHist, ioTick, wr>>

\* period_buffer_size = 2 * period_size; period_buffer = malloc(...)
buffer_alloc_step ==
    /\ MainRuns /\ pc = "o_malloc"
    /\ period_buffer_size' = [period_buffer_size EXCEPT ![cur] = 2 * period_size(cur)]
    /\ \E ok \in BOOLEAN :
         /\ ok \/ fails < MaxFail
         /\ IF ok
              THEN /\ period_buffer' = [period_buffer EXCEPT ![cur] = "alloc"]
                   /\ contents' = [contents EXCEPT ![cur] = UninitBuf(period_size(cur))]
                   /\ IF start_threshold(cur) > 0 \/ stop_threshold(cur) > 0
                        THEN rc' = rc /\ pc' = "o_sw"
                        ELSE rc' = 0 /\ pc' = "rep_check"
              ELSE /\ period_buffer' = [period_buffer EXCEPT ![cur] = "null"]
                   /\ contents' = [contents EXCEPT ![cur] = <<>>]
                   /\ rc' = err(terminating, ERR_BUFFER_ALLOC_FAILED)
                   /\ pc' = "rep_check"
    /\ UNCHANGED <<iterHist, aec, ctx, cur, started, logfile, handle, dev, ledVars,
                   echo_state, sigVars, openHist, endHist, ioTick, wr>>

\* snd_pcm_sw_params_current ... snd_pcm_sw_params, then return 0
sw_params_step ==
    /\ MainRuns /\ pc = "o_sw"
    /\ \E code \in {0} \cup SwParamErrors(cur) :
         /\ code = 0 \/ fails < MaxFail
         /\ rc' = IF code # 0 THEN err(terminating, code) ELSE 0
    /\ pc' = "rep_check"
    /\ UNCHANGED <<iterHist, aec, ctx, cur, started, logfile, streamVars, ledVars,
                   echo_state, sigVars, openHist, endHist, ioTick, wr>>

(* ------------------------------------------------------------------ *)
(* close_route_stream, lines 263-276                                   *)
(* ------------------------------------------------------------------ *)

\* where close_route_stream(cur) returns to: the retry loop, the next
\* close of cleanup(), or cleanup()'s set_aux_leds
AfterClosePc ==
    IF ctx = "open" THEN "rep_sleep"
    ELSE IF cur = CleanupOrder[Len(CleanupOrder)] THEN "cl_leds" ELSE "c_check"

AfterCloseCur ==
    IF ctx = "open" \/ cur = CleanupOrder[Len(CleanupOrder)] THEN cur
    ELSE CleanupOrder[IndexIn(CleanupOrder, cur) + 1]

\* faulty variant: the test of s->handle is missing
close_check_no_guard ==
    /\ MainRuns /\ pc = "c_check"
    /\ pc' = "c_close" /\ cur' = cur
    /\ UNCHANGED <<iterHist, aec, ctx, rc, started, logfile, streamVars, ledVars,
                   echo_state, sigVars, openHist, endHist, ioTick, wr>>

\* if (s->handle == 0) return 0;
close_check ==
    /\ MainRuns /\ pc = "c_check"
    /\ IF handle[cur] = "null"
         THEN pc' = AfterClosePc /\ cur' = AfterCloseCur
         ELSE pc' = "c_close" /\ cur' = cur
    /\ UNCHANGED <<iterHist, aec, ctx, rc, started, logfile, streamVars, ledVars,
                   echo_state, sigVars, openHist, endHist, ioTick, wr>>

\* snd_pcm_close(s->handle); the pointer is still in s->handle
close_snd_pcm_close ==
    /\ MainRuns /\ pc = "c_close"
    /\ handle' = [handle EXCEPT ![cur] = "stale"]
    /\ doubleRel' = (doubleRel \/ handle[cur] = "stale")
    /\ pc' = "c_hnull"
    /\ UNCHANGED <<iterHist, aec, ctx, cur, rc, started, logfile, period_buffer,
                   period_buffer_size, contents, dev, ledVars, echo_state,
                   sigVars, openHist, cleanupCalls, echoDestroys, ioTick, wr>>

\* faulty variant: close returns after releasing the handle and leaves
\* the period buffer allocated
close_handle_null_keeps_buffer ==
    /\ MainRuns /\ pc = "c_hnull"
    /\ handle' = [handle EXCEPT ![cur] = "null"]
    /\ pc' = AfterClosePc /\ cur' = AfterCloseCur
    /\ UNCHANGED <<iterHist, aec, ctx, rc, started, logfile, period_buffer,
                   period_buffer_size, contents, dev, ledVars, echo_state,
                   sigVars, openHist, endHist, ioTick, wr>>

\* s->handle = 0; if (s->period_buffer == 0) return 0;
close_handle_null ==
    /\ MainRuns /\ pc = "c_hnull"
    /\ handle' = [handle EXCEPT ![cur] = "null"]
    /\ IF period_buffer[cur] = "null"
         THEN pc' = AfterClosePc /\ cur' = AfterCloseCur
         ELSE pc' = "c_free" /\ cur' = cur
    /\ UNCHANGED <<iterHist, aec, ctx, rc, started, logfile, period_buffer,
                   period_buffer_size, contents, dev, ledVars, echo_state,
                   sigVars, openHist, endHist, ioTick, wr>>

\* free(s->period_buffer); the pointer is still in s->period_buffer
close_free ==
    /\ MainRuns /\ pc = "c_free"
    /\ period_buffer' = [period_buffer EXCEPT ![cur] = "stale"]
    /\ contents' = [contents EXCEPT ![cur] = <<>>]
    /\ doubleRel' = (doubleRel \/ period_buffer[cur] = "stale")
    /\ pc' = "c_bnull"
    /\ UNCHANGED <<iterHist, aec, ctx, cur, rc, started, logfile, handle,
                   period_buffer_size, dev, ledVars, echo_state,
                   sigVars, openHist, cleanupCalls, echoDestroys, ioTick, wr>>

\* s->period_buffer = 0; return 0;
close_buf_null ==
    /\ MainRuns /\ pc = "c_bnull"
    /\ period_buffer' = [period_buffer EXCEPT ![cur] = "null"]
    /\ pc' = AfterClosePc
    /\ cur' = AfterCloseCur
    /\ UNCHANGED <<iterHist, aec, ctx, rc, started, logfile, handle,
                   period_buffer_size, contents, dev, ledVars, echo_state,
                   sigVars, openHist, endHist, ioTick, wr>>

(* ------------------------------------------------------------------ *)
(* open_route_stream_repeated, lines 278-290                           *)
(* ------------------------------------------------------------------ *)

\* the call open_route_stream_repeated(&cur) begins
repeated_enter ==
    /\ MainRuns /\ pc = "rep_enter"
    /\ fails' = 0 /\ sleptUs' = 0 /\ closes' = 0
    /\ pc' = "o_pcm_open"
    /\ UNCHANGED <<iterHist, aec, ctx, cur, rc, started, logfile, streamVars, ledVars,
                   echo_state, sigVars, endHist, ioTick, wr>>

\* faulty variant: the retry loop gives up after the first failed attempt
repeated_check_gives_up ==
    /\ MainRuns /\ pc = "rep_check"
    /\ IF rc = 0 \/ fails >= 1
         THEN pc' = "rep_ret" /\ UNCHANGED <<fails, closes>>
         ELSE pc' = "c_check" /\ fails' = fails + 1 /\ closes' = closes + 1
    /\ UNCHANGED <<iterHist, aec, ctx, cur, rc, started, logfile, streamVars, ledVars,
                   echo_state, sigVars, sleptUs, endHist, ioTick, wr>>

\* rc = open_route_stream(s); if (rc == 0) return; close_route_stream(s);
repeated_check ==
    /\ MainRuns /\ pc = "rep_check"
    /\ IF rc = 0
         THEN pc' = "rep_ret" /\ UNCHANGED <<fails, closes>>
         ELSE pc' = "c_check" /\ fails' = fails + 1 /\ closes' = closes + 1
    /\ UNCHANGED <<iterHist, aec, ctx, cur, rc, started, logfile, streamVars, ledVars,
                   echo_state, sigVars, sleptUs, endHist, ioTick, wr>>

\* fprintf(logfile, "retrying in 100 ms\n"); usleep(1000 * 100); and again
repeated_sleep ==
    /\ MainRuns /\ pc = "rep_sleep"
    /\ sleptUs' = sleptUs + RetrySleepUs
    /\ pc' = "o_pcm_open"
    /\ UNCHANGED <<iterHist, aec, ctx, cur, rc, started, logfile, streamVars, ledVars,
                   echo_state, sigVars, fails, closes, endHist, ioTick, wr>>

\* open_route_stream_repeated returned: main() opens the next stream, or
\* enters the routing loop after the fourth
repeated_return ==
    /\ MainRuns /\ pc = "rep_ret"
    /\ IF cur = OpenOrder[Len(OpenOrder)]
         THEN pc' = "while" /\ ctx' = "loop" /\ cur' = cur
         ELSE /\ pc' = "rep_enter" /\ ctx' = ctx
              /\ cur' = OpenOrder[IndexIn(OpenOrder, cur) + 1]
    /\ UNCHANGED <<iterHist, aec, rc, started, logfile, streamVars, ledVars,
                   echo_state, sigVars, openHist, endHist, ioTick, wr>>

(* ------------------------------------------------------------------ *)
(* route_stream_read / route_stream_write, lines 292-344               *)
(* ------------------------------------------------------------------ *)

\* what snd_pcm_readi / snd_pcm_writei can return for stream s: a full
\* period, -EPIPE, another negative errno, or fewer frames than asked
DevResults(s) == {period_size(s), -EPIPE, -EIO} \cup (0..(period_size(s) - 1))

\* faulty variant: a transfer of fewer frames than a period is taken as
\* success
read_outcome_accepts_short(term, res, period) ==
    IF res >= 0 THEN 0
    ELSE IF res = -EPIPE THEN ERR_READ_OVERRUN
    ELSE err(term, ERR_READ)

\* the return code of route_stream_read for device result res
read_outcome(term, res, period) ==
    IF res = period THEN 0
    ELSE IF res = -EPIPE THEN ERR_READ_OVERRUN
    ELSE IF res < 0 THEN err(term, ERR_READ)
    ELSE err(term, ERR_SHORT_READ)

\* the return code of route_stream_write for device result res
write_outcome(term, res, period) ==
    IF res = period THEN 0
    ELSE IF res = -EPIPE THEN ERR_WRITE_UNDERRUN
    ELSE IF res < 0 THEN err(term, ERR_WRITE)
    ELSE err(term, ERR_SHORT_WRITE)

\* the device when snd_pcm_readi / snd_pcm_writei has returned res: -EPIPE
\* means the stream is in XRUN
dev_after_io(res, d) == IF res = -EPIPE THEN "xrun" ELSE d

\* faulty variant: the EPIPE branch returns without snd_pcm_prepare
dev_after_transfer_no_prepare(res, d) == IF res = -EPIPE THEN "xrun" ELSE d

\* the device after the tests on rc: the EPIPE branch calls
\* snd_pcm_prepare, the other branches leave the device alone
dev_after_transfer(res, d) == IF res = -EPIPE THEN "ok" ELSE d

\* the period buffer after snd_pcm_readi stored res frames of fresh into it
buffer_after_read(old, fresh, res) ==
    [i \in 1..Len(old) |-> IF i <= res THEN fresh[i] ELSE old[i]]

\* if (terminating) return ERR_TERMINATING;   (route_stream_read)
read_check ==
    /\ MainRuns /\ pc = "rd_chk"
    /\ IF terminating # 0
         THEN rc' = ERR_TERMINATING /\ pc' = (IF cur = "r0" THEN "r0_ret" ELSE "r1_ret")
         ELSE rc' = rc /\ pc' = "rd_io"
    /\ UNCHANGED <<iterHist, aec, ctx, cur, started, logfile, streamVars, ledVars,
                   echo_state, sigVars, openHist, endHist, ioTick, wr>>

\* rc = snd_pcm_readi(s->handle, s->period_buffer, s->period_size);
read_io ==
    /\ MainRuns /\ pc = "rd_io"
    /\ \E res \in DevResults(cur), fresh \in Bufs(period_size(cur)) :
         /\ contents' = [contents EXCEPT
                           ![cur] = buffer_after_read(contents[cur], fresh, res)]
         /\ dev' = [dev EXCEPT ![cur] = dev_after_io(res, dev[cur])]
         /\ xfer' = [kind |-> "readi", s |-> cur, res |-> res, ret |-> 0]
    /\ ioTick' = 1 - ioTick
    /\ pc' = "rd_cls"
    /\ UNCHANGED <<iter, notified, aec, ctx, cur, rc, started, logfile, handle,
                   period_buffer, period_buffer_size, ledVars, echo_state,
                   sigVars, openHist, endHist, wr>>

\* the tests on rc: on -EPIPE err() and snd_pcm_prepare(s->handle), on
\* the other failures err()
read_classify ==
    /\ MainRuns /\ pc = "rd_cls"
    /\ dev' = [dev EXCEPT ![cur] = dev_after_transfer(xfer.res, dev[cur])]
    /\ pc' = "rd_ret"
    /\ UNCHANGED <<iterHist, aec, ctx, cur, rc, started, logfile, handle,
                   period_buffer, period_buffer_size, contents, ledVars,
                   echo_state, sigVars, openHist, endHist, ioTick, wr>>

\* route_stream_read returns its code to main()
read_return ==
    /\ MainRuns /\ pc = "rd_ret"
    /\ rc' = read_outcome(terminating, xfer.res, period_size(cur))
    /\ xfer' = [xfer EXCEPT !.kind = "rd",
                            !.ret = read_outcome(terminating, xfer.res,
                                                 period_size(cur))]
    /\ iter' = [iter EXCEPT !.rdOk =
                   IF read_outcome(terminating, xfer.res, period_size(cur)) = 0
                     THEN @ \cup {cur} ELSE @]
    /\ pc' = (IF cur = "r0" THEN "r0_ret" ELSE "r1_ret")
    /\ UNCHANGED <<notified, aec, ctx, cur, started, logfile, streamVars, ledVars,
                   echo_state, sigVars, openHist, endHist, ioTick, wr>>

\* if (terminating) return ERR_TERMINATING;   (route_stream_write)
write_check ==
    /\ MainRuns /\ pc = "wr_chk"
    /\ IF terminating # 0
         THEN IF cur = "p0" THEN pc' = "wr_chk" /\ cur' = "p1"
                            ELSE pc' = "while" /\ cur' = cur
         ELSE pc' = "wr_io" /\ cur' = cur
    /\ UNCHANGED <<iterHist, aec, ctx, rc, started, logfile, streamVars, ledVars,
                   echo_state, sigVars, openHist, endHist, ioTick, wr>>

\* rc = snd_pcm_writei(s->handle, s->period_buffer, s->period_size);
write_io ==
    /\ MainRuns /\ pc = "wr_io"
    /\ \E res \in DevResults(cur), bytes \in Resolve(contents[cur]) :
         /\ wr' = [wr EXCEPT ![cur] = bytes]
         /\ xfer' = [kind |-> "writei", s |-> cur, res |-> res, ret |-> 0]
         /\ dev' = [dev EXCEPT ![cur] = dev_after_io(res, dev[cur])]
    /\ ioTick' = 1 - ioTick
    /\ pc' = "wr_cls"
    /\ UNCHANGED <<iter, notified, aec, ctx, cur, rc, started, logfile, handle,
                   period_buffer, period_buffer_size, contents, ledVars,
                   echo_state, sigVars, openHist, endHist>>

\* the tests on rc: on -EPIPE err() and snd_pcm_prepare(s->handle), on
\* the other failures err()
write_classify ==
    /\ MainRuns /\ pc = "wr_cls"
    /\ dev' = [dev EXCEPT ![cur] = dev_after_transfer(xfer.res, dev[cur])]
    /\ pc' = "wr_ret"
    /\ UNCHANGED <<iterHist, aec, ctx, cur, rc, started, logfile, handle,
                   period_buffer, period_buffer_size, contents, ledVars,
                   echo_state, sigVars, openHist, endHist, ioTick, wr>>

\* faulty variant: a failed write of p0 ends the iteration
write_return_stops_on_fault ==
    /\ MainRuns /\ pc = "wr_ret"
    /\ xfer' = [xfer EXCEPT !.kind = "wr",
                            !.ret = write_outcome(terminating, xfer.res,
                                                  period_size(cur))]
    /\ IF cur = "p0" /\ xfer.res = period_size(cur)
         THEN pc' = "wr_chk" /\ cur' = "p1"
         ELSE pc' = "while" /\ cur' = cur
    /\ UNCHANGED <<iter, notified, aec, ctx, rc, started, logfile, streamVars,
                   ledVars, echo_state, sigVars, openHist, endHist, ioTick, wr>>

\* route_stream_write returns its code; main() drops it and goes on to
\* the next statement
write_return ==
    /\ MainRuns /\ pc = "wr_ret"
    /\ xfer' = [xfer EXCEPT !.kind = "wr",
                            !.ret = write_outcome(terminating, xfer.res,
                                                  period_size(cur))]
    /\ IF cur = "p0" THEN pc' = "wr_chk" /\ cur' = "p1"
                     ELSE pc' = "while" /\ cur' = cur
    /\ UNCHANGED <<iter, notified, aec, ctx, rc, started, logfile, streamVars,
                   ledVars, echo_state, sigVars, openHist, endHist, ioTick, wr>>

(* ------------------------------------------------------------------ *)
(* vol_up, vol_down, reduce_echo, lines 412-482                        *)
(* ------------------------------------------------------------------ *)

\* the margin of reduce_echo
EchoLimit == 10000

vol_up(buf) == [i \in 1..Len(buf) |-> S16(buf[i] * 2)]

vol_down(buf) == [i \in 1..Len(buf) |-> 0]

RECURSIVE SumAbs(_, _)
SumAbs(buf, n) == IF n = 0 THEN 0 ELSE Abs(buf[n]) + SumAbs(buf, n - 1)

\* reduce_echo(p0, p1, period_size): <<p0 after, p1 after, red, green>>
reduce_echo(b0, b1) ==
    LET diff == SumAbs(b0, Len(b0)) - SumAbs(b1, Len(b1))
    IN  IF diff > EchoLimit THEN <<vol_up(b0), vol_down(b1), 0, 1>>
        ELSE IF diff < -EchoLimit THEN <<vol_down(b0), vol_up(b1), 1, 0>>
        ELSE <<b0, b1, 0, 0>>

(* ------------------------------------------------------------------ *)
(* main(): the routing loop, lines 600-642                             *)
(* ------------------------------------------------------------------ *)

\* while (!terminating) { ... route_stream_read(&r0)
loop_while ==
    /\ MainRuns /\ pc = "while"
    /\ IF terminating = 0
         THEN pc' = "rd_chk" /\ cur' = "r0" /\ ctx' = ctx
         ELSE pc' = "e_destroy" /\ cur' = cur /\ ctx' = "end"
    /\ wr' = NoWrites
    /\ xfer' = NoXfer
    /\ iter' = IterStart
    /\ UNCHANGED <<notified, aec, rc, started, logfile, streamVars, ledVars,
                   echo_state, sigVars, openHist, endHist, ioTick>>

\* faulty variant: blink_aux() is called only after an overrun
main_r0_branch_blinks_on_overrun_only ==
    /\ MainRuns /\ pc = "r0_ret"
    /\ IF rc = ERR_READ_OVERRUN
         THEN /\ \E sameSecond \in BOOLEAN :
                   /\ aux_red_state' = blink_aux(sameSecond)[1]
                   /\ aux_green_state' = blink_aux(sameSecond)[2]
              /\ iter' = [iter EXCEPT !.blinked = TRUE]
              /\ pc' = "while" /\ cur' = cur
         ELSE /\ UNCHANGED <<ledVars, iter>>
              /\ IF rc # 0 THEN pc' = "while" /\ cur' = cur
                           ELSE pc' = "rd_chk" /\ cur' = "r1"
    /\ UNCHANGED <<xfer, notified, aec, ctx, rc, started, logfile, streamVars,
                   echo_state, sigVars, openHist, endHist, ioTick, wr>>

\* if (route_stream_read(&r0)) { blink_aux(); continue; }
main_r0_branch ==
    /\ MainRuns /\ pc = "r0_ret"
    /\ IF rc # 0
         THEN /\ \E sameSecond \in BOOLEAN :
                   /\ aux_red_state' = blink_aux(sameSecond)[1]
                   /\ aux_green_state' = blink_aux(sameSecond)[2]
              /\ iter' = [iter EXCEPT !.blinked = TRUE]
              /\ pc' = "while" /\ cur' = cur
         ELSE /\ UNCHANGED <<ledVars, iter>>
              /\ pc' = "rd_chk" /\ cur' = "r1"
    /\ UNCHANGED <<xfer, notified, aec, ctx, rc, started, logfile, streamVars,
                   echo_state, sigVars, openHist, endHist, ioTick, wr>>

\* faulty variant: the "if (rc != 0) continue;" is missing
main_r1_branch_no_continue ==
    /\ MainRuns /\ pc = "r1_ret"
    /\ IF rc = ERR_READ /\ started # 0
         THEN pc' = "e_destroy" /\ ctx' = "end"
         ELSE pc' = "started" /\ ctx' = ctx
    /\ UNCHANGED <<iterHist, aec, cur, rc, started, logfile, streamVars, ledVars,
                   echo_state, sigVars, openHist, endHist, ioTick, wr>>

\* faulty variant: any failed read of r1 after routing started is a hangup
main_r1_branch_any_fault ==
    /\ MainRuns /\ pc = "r1_ret"
    /\ IF rc # 0 /\ started # 0
         THEN pc' = "e_destroy" /\ ctx' = "end"
         ELSE IF rc # 0
                THEN pc' = "while" /\ ctx' = ctx
                ELSE pc' = "started" /\ ctx' = ctx
    /\ UNCHANGED <<iterHist, aec, cur, rc, started, logfile, streamVars, ledVars,
                   echo_state, sigVars, openHist, endHist, ioTick, wr>>

\* rc = route_stream_read(&r1);
\* if (rc == ERR_READ && started) break;  if (rc != 0) continue;
main_r1_branch ==
    /\ MainRuns /\ pc = "r1_ret"
    /\ IF rc = ERR_READ /\ started # 0
         THEN pc' = "e_destroy" /\ ctx' = "end"
         ELSE IF rc # 0
                THEN pc' = "while" /\ ctx' = ctx
                ELSE pc' = "started" /\ ctx' = ctx
    /\ UNCHANGED <<iterHist, aec, cur, rc, started, logfile, streamVars, ledVars,
                   echo_state, sigVars, openHist, endHist, ioTick, wr>>

\* if (started) show_progress();
\* else fprintf(logfile, "voice routing started\n");
main_started ==
    /\ MainRuns /\ pc = "started"
    /\ IF started # 0
         THEN notified' = notified /\ pc' = "cond"
         ELSE notified' = notified + 1 /\ pc' = "set_started"
    /\ UNCHANGED <<xfer, iter, aec, ctx, cur, rc, started, logfile, streamVars,
                   ledVars, echo_state, sigVars, openHist, endHist, ioTick, wr>>

\* started = 1;
main_set_started ==
    /\ MainRuns /\ pc = "set_started"
    /\ started' = 1
    /\ pc' = "cond"
    /\ UNCHANGED <<iterHist, aec, ctx, cur, rc, logfile, streamVars, ledVars,
                   echo_state, sigVars, openHist, endHist, ioTick, wr>>

\* the buffers the echo code reads: speex_echo_cancellation(st, rec,
\* play, out) reads r0 as rec and p0 as play and only stores into p1;
\* reduce_echo reads p0 and p1
EchoInputs ==
    IF aec = "speex" THEN {"r0", "p0"}
    ELSE IF aec = "walkie" THEN {"p0", "p1"}
    ELSE {}

\* faulty variant: the memmove(p0, r1) after speex_echo_cancellation is
\* missing
main_condition_no_memmove ==
    /\ MainRuns /\ pc = "cond"
    /\ CASE aec = "speex" ->
              \* speex_echo_cancellation(echo_state, r0, p0, p1) stores its
              \* output in p1's buffer; then memmove(p0, r1)
              /\ \E out \in Bufs(period_size("p1")) :
                   contents' = [contents EXCEPT !["p1"] = out]
              /\ UNCHANGED ledVars
         [] aec = "walkie" ->
              \* memmove(p0, r1); memmove(p1, r0); reduce_echo(p0, p1)
              LET res == reduce_echo(contents["r1"], contents["r0"])
              IN  /\ contents' = [contents EXCEPT !["p0"] = res[1], !["p1"] = res[2]]
                  /\ aux_red_state' = set_aux_leds(res[3], res[4])[1]
                  /\ aux_green_state' = set_aux_leds(res[3], res[4])[2]
         [] OTHER ->
              \* neither macro defined: nothing is copied
              UNCHANGED <<contents, ledVars>>
    /\ iter' = IF aec = "none" THEN iter
               ELSE [iter EXCEPT !.conds = @ + 1,
                                 !.aecIn = EchoInputs,
                                 !.aecOut = contents'["p1"]]
    /\ pc' = "wr_chk"
    /\ cur' = "p0"
    /\ UNCHANGED <<xfer, notified, aec, ctx, rc, started, logfile, handle, period_buffer,
                   period_buffer_size, dev, echo_state, sigVars, openHist,
                   endHist, ioTick, wr>>

\* the #ifdef blocks between the reads and the writes, lines 626-638
main_condition ==
    /\ MainRuns /\ pc = "cond"
    /\ CASE aec = "speex" ->
              \* speex_echo_cancellation(echo_state, r0, p0, p1) stores its
              \* output in p1's buffer; then memmove(p0, r1)
              /\ \E out \in Bufs(period_size("p1")) :
                   contents' = [contents EXCEPT !["p1"] = out,
                                                !["p0"] = contents["r1"]]
              /\ UNCHANGED ledVars
         [] aec = "walkie" ->
              \* memmove(p0, r1); memmove(p1, r0); reduce_echo(p0, p1)
              LET res == reduce_echo(contents["r1"], contents["r0"])
              IN  /\ contents' = [contents EXCEPT !["p0"] = res[1], !["p1"] = res[2]]
                  /\ aux_red_state' = set_aux_leds(res[3], res[4])[1]
                  /\ aux_green_state' = set_aux_leds(res[3], res[4])[2]
         [] OTHER ->
              \* neither macro defined: nothing is copied
              UNCHANGED <<contents, ledVars>>
    /\ iter' = IF aec = "none" THEN iter
               ELSE [iter EXCEPT !.conds = @ + 1,
                                 !.aecIn = EchoInputs,
                                 !.aecOut = contents'["p1"]]
    /\ pc' = "wr_chk"
    /\ cur' = "p0"
    /\ UNCHANGED <<xfer, notified, aec, ctx, rc, started, logfile, handle, period_buffer,
                   period_buffer_size, dev, echo_state, sigVars, openHist,
                   endHist, ioTick, wr>>

(* ------------------------------------------------------------------ *)
(* main(): after the loop, lines 644-650, and cleanup, lines 533-542   *)
(* ------------------------------------------------------------------ *)

\* speex_echo_state_destroy(echo_state) under USE_SPEEX_AEC
main_destroy ==
    /\ MainRuns /\ pc = "e_destroy"
    /\ IF aec = "speex"
         THEN echo_state' = "destroyed" /\ echoDestroys' = echoDestroys + 1
         ELSE UNCHANGED <<echo_state, echoDestroys>>
    /\ pc' = "e_cleanup"
    /\ UNCHANGED <<iterHist, aec, ctx, cur, rc, started, logfile, streamVars, ledVars,
                   sigVars, openHist, cleanupCalls, doubleRel, ioTick, wr>>

\* fprintf(logfile, "gsm-voice-routing ending\n"); cleanup() is entered
main_cleanup_call ==
    /\ MainRuns /\ pc = "e_cleanup"
    /\ cleanupCalls' = cleanupCalls + 1
    /\ cur' = CleanupOrder[1]
    /\ pc' = "c_check"
    /\ UNCHANGED <<iterHist, aec, ctx, rc, started, logfile, streamVars, ledVars,
                   echo_state, sigVars, openHist, doubleRel, echoDestroys,
                   ioTick, wr>>

\* set_aux_leds(0, 0);
cleanup_leds ==
    /\ MainRuns /\ pc = "cl_leds"
    /\ aux_red_state' = set_aux_leds(0, 0)[1]
    /\ aux_green_state' = set_aux_leds(0, 0)[2]
    /\ pc' = "cl_fclose"
    /\ UNCHANGED <<iterHist, aec, ctx, cur, rc, started, logfile, streamVars,
                   echo_state, sigVars, openHist, endHist, ioTick, wr>>

\* fclose(logfile);
cleanup_fclose ==
    /\ MainRuns /\ pc = "cl_fclose"
    /\ logfile' = "closed"
    /\ doubleRel' = (doubleRel \/ logfile = "closed")
    /\ pc' = "e_return"
    /\ UNCHANGED <<iterHist, aec, ctx, cur, rc, started, streamVars, ledVars,
                   echo_state, sigVars, openHist, cleanupCalls, echoDestroys,
                   ioTick, wr>>

\* return 0;
main_return ==
    /\ MainRuns /\ pc = "e_return"
    /\ status' = "exit0"
    /\ pc' = "done"
    /\ UNCHANGED <<iterHist, aec, ctx, cur, rc, started, terminating, logfile,
                   streamVars, ledVars, echo_state, hpc, sigCount, openHist,
                   endHist, ioTick, wr>>

(* ------------------------------------------------------------------ *)
(* sighandler, lines 544-553                                           *)
(* ------------------------------------------------------------------ *)

\* faulty variant: the handler only sets the flag and returns to main()
sighandler_entry_flag_only ==
    /\ status = "running"
    /\ sigCount < MaxSignals
    /\ sigCount' = sigCount + 1
    /\ terminating' = 1
    /\ UNCHANGED <<iterHist, aec, pc, ctx, cur, rc, started, logfile, streamVars,
                   ledVars, echo_state, hpc, status, openHist, endHist,
                   ioTick, wr>>

\* a signal arrives: if (terminating) return; terminating = 1;
\* A signal that arrives while the handler is on the stack finds the flag
\* set and returns into the interrupted handler.
sighandler_entry ==
    /\ status = "running"
    /\ sigCount < MaxSignals
    /\ sigCount' = sigCount + 1
    /\ IF terminating # 0
         THEN UNCHANGED <<terminating, hpc>>
         ELSE terminating' = 1 /\ hpc' = "handler"
    /\ UNCHANGED <<iterHist, aec, pc, ctx, cur, rc, started, logfile, streamVars,
                   ledVars, echo_state, status, openHist, endHist, ioTick, wr>>

\* The statements of the handler after the flag is set, numbered: 0 the
\* fprintf, 1..4 the close_route_stream calls of cleanup(), 5 fclose,
\* 6 exit(0).  A statement is undefined when it uses a FILE that is not
\* open or closes a handle / frees a buffer whose pointer is stale.
HandlerUndefinedAt(k) ==
    IF k = 0 \/ k = Len(CleanupOrder) + 1 THEN logfile # "open"
    ELSE \/ handle[CleanupOrder[k]] = "stale"
         \/ handle[CleanupOrder[k]] = "open" /\ period_buffer[CleanupOrder[k]] = "stale"

\* a second release among the handler's statements 1..k
HandlerDoubleRelease(k) ==
    \E j \in 1..k :
      /\ HandlerUndefinedAt(j)
      /\ j = Len(CleanupOrder) + 1 => logfile = "closed"

\* close_route_stream(s) run to completion inside the handler
HandlerClosed(s, k) ==
    IndexIn(CleanupOrder, s) <= k /\ handle[s] # "null"

\* fprintf(logfile, ...); cleanup(); exit(0);
\* An undefined statement either crashes the process there or is survived.
sighandler_body ==
    /\ status = "running" /\ hpc = "handler"
    /\ \E stop \in 0..(Len(CleanupOrder) + 2) :
         /\ stop <= Len(CleanupOrder) + 1 => HandlerUndefinedAt(stop)
         /\ LET exits == stop = Len(CleanupOrder) + 2
                nclosed == IF stop > Len(CleanupOrder) THEN Len(CleanupOrder)
                           ELSE IF stop = 0 THEN 0 ELSE stop - 1
            IN  /\ status' = IF exits THEN "exit0" ELSE "crash"
                /\ cleanupCalls' = IF stop = 0 THEN cleanupCalls ELSE cleanupCalls + 1
                /\ doubleRel' = (doubleRel \/
                                 HandlerDoubleRelease(IF exits THEN stop - 1 ELSE stop))
                /\ handle' = [s \in Streams |->
                                IF HandlerClosed(s, nclosed) THEN "null" ELSE handle[s]]
                /\ period_buffer' = [s \in Streams |->
                                IF HandlerClosed(s, nclosed) THEN "null"
                                ELSE period_buffer[s]]
                /\ contents' = [s \in Streams |->
                                IF HandlerClosed(s, nclosed) THEN <<>> ELSE contents[s]]
                /\ aux_red_state' = IF stop > Len(CleanupOrder)
                                      THEN set_aux_leds(0, 0)[1] ELSE aux_red_state
                /\ aux_green_state' = IF stop > Len(CleanupOrder)
                                        THEN set_aux_leds(0, 0)[2] ELSE aux_green_state
                /\ logfile' = IF exits THEN "closed" ELSE logfile
    /\ hpc' = "idle"
    /\ UNCHANGED <<iterHist, aec, pc, ctx, cur, rc, started, terminating,
                   period_buffer_size, dev, echo_state, sigCount, openHist,
                   echoDestroys, ioTick, wr>>

(* ------------------------------------------------------------------ *)
(* The specification                                                   *)
(* ------------------------------------------------------------------ *)

Next ==
    \/ main_blink
    \/ main_logfile
    \/ main_echo_init
    \/ repeated_enter
    \/ snd_pcm_open_step
    \/ hw_params_step
    \/ buffer_alloc_step
    \/ sw_params_step
    \/ repeated_check
    \/ close_check
    \/ close_snd_pcm_close
    \/ close_handle_null
    \/ close_free
    \/ close_buf_null
    \/ repeated_sleep
    \/ repeated_return
    \/ loop_while
    \/ read_check
    \/ read_io
    \/ read_classify
    \/ read_return
    \/ main_r0_branch
    \/ main_r1_branch
    \/ main_started
    \/ main_set_started
    \/ main_condition
    \/ write_check
    \/ write_io
    \/ write_classify
    \/ write_return
    \/ main_destroy
    \/ main_cleanup_call
    \/ cleanup_leds
    \/ cleanup_fclose
    \/ main_return
    \/ sighandler_entry
    \/ sighandler_body

Spec == Init /\ [][Next]_vars

(* ------------------------------------------------------------------ *)
(* Properties                                                          *)
(* ------------------------------------------------------------------ *)

\* every stream has its handle reset and no period buffer still allocated
AllClosed == \A s \in Streams : handle[s] = "null" /\ period_buffer[s] # "alloc"

AllOpen == \A s \in Streams : handle[s] = "open" /\ period_buffer[s] = "alloc"

\* main() has left the routing loop (by the break of the hangup test)
LoopLeft == ctx = "end"

\* C1: over every interleaving of main() with SIGINT/SIGTERM, cleanup() is
\* executed at most once in a run and no handle, period buffer or log
\* sink is released a second time.
C1_SingleCleanupNoDoubleRelease == cleanupCalls <= 1 /\ ~doubleRel

\* C2: the loop is left only by a fatal read of r1 (ERR_READ) while
\* started = 1 -- never while started = 0 -- and a run that left the loop
\* this way executes exactly one cleanup pass.
C2_HangupOneCleanup ==
    /\ LoopLeft => started = 1 /\ rc = ERR_READ /\ cleanupCalls <= 1
    /\ LoopLeft /\ status = "exit0" => cleanupCalls = 1

\* C3: once terminating is set, no snd_pcm_readi / snd_pcm_writei is
\* issued any more, wherever in main() the signal arrived.
C3_NoIoAfterTerminating == [][terminating # 0 => ioTick' = ioTick]_vars

\* the signal arrived between the terminating test of route_stream_read
\* and its snd_pcm_readi, and the process has exited
C3_Witness == terminating = 1 /\ pc = "rd_io" /\ status = "exit0"

\* C4: whenever the process has exited with status 0, by the handler or
\* by the hangup path, all four streams are closed: handle null and
\* period buffer released.
C4_ExitAllClosed == status = "exit0" => AllClosed

\* C5: with neither echo strategy compiled in, the bytes written to p0
\* in an iteration are the bytes read from r1 in it, and the bytes
\* written to p1 are the bytes read from r0 in it.
C5_IdentityRouting ==
    aec = "none" /\ ctx = "loop" /\ MainRuns =>
      /\ wr["p0"] # <<>> => wr["p0"] = contents["r1"]
      /\ wr["p1"] # <<>> => wr["p1"] = contents["r0"]

\* a capture read has just returned ERR_READ_OVERRUN to the loop
OverrunReturned ==
    /\ MainRuns /\ ctx = "loop"
    /\ pc \in {"r0_ret", "r1_ret"}
    /\ rc = ERR_READ_OVERRUN

\* C6: when a read of r0 or r1 returns overrun, the device has been
\* prepared again, nothing has been written in this iteration, and the
\* next statement of main() goes back to the loop head without a write
\* and with started, terminating and the process state unchanged.
C6_OverrunRecovered ==
    [][OverrunReturned =>
         /\ dev[cur] = "ok"
         /\ wr = NoWrites
         /\ pc' # pc => /\ pc' = "while"
                        /\ ctx' = "loop"
                        /\ started' = started
                        /\ terminating' = 0
                        /\ status' = "running"
                        /\ wr' = NoWrites
                        /\ ioTick' = ioTick]_vars

\* an overrun on r1 while routing
C6_Witness == OverrunReturned /\ cur = "r1" /\ started = 1

\* C7: the routing loop ends, or the process ends while in it, only
\* after a termination signal or by a fatal r1 read while started.
C7_LoopEndsOnlyBySignalOrHangup ==
    [][(ctx = "loop" /\ status = "running"
          /\ (ctx' # "loop" \/ status' # "running"))
       => \/ terminating = 1
          \/ pc = "r1_ret" /\ cur = "r1" /\ rc = ERR_READ /\ started = 1]_vars

\* a fatal read of r0 while routing, after both writes of an earlier
\* iteration; the session goes on
C7_Witness ==
    /\ MainRuns /\ ctx = "loop" /\ started = 1
    /\ pc = "r0_ret" /\ rc = ERR_READ

\* C8: a run in which a signal was delivered ends by exit status 0,
\* never by a crash.
C8_SignalExitsZero == sigCount > 0 /\ status # "running" => status = "exit0"

\* C9: when the process exits after the echo state was created, the
\* echo state has been destroyed exactly once.
C9_ConditionerDestroyedOnce ==
    aec = "speex" /\ status = "exit0" /\ echo_state # "unset" => echoDestroys = 1

\* C10: open_route_stream_repeated returns only after a successful
\* attempt, having slept 100 ms and closed the stream once per failed
\* attempt; every attempt starts from a closed stream; and the loop is
\* entered only with all four streams open.
C10_StartupRetry ==
    status = "running" =>
      /\ pc = "rep_ret" => /\ rc = 0
                           /\ sleptUs = fails * RetrySleepUs
                           /\ closes = fails
                           /\ handle[cur] = "open"
                           /\ period_buffer[cur] = "alloc"
      /\ pc = "o_pcm_open" => /\ sleptUs = fails * RetrySleepUs
                              /\ closes = fails
                              /\ handle[cur] = "null"
                              /\ period_buffer[cur] = "null"
      /\ ctx = "loop" => AllOpen

\* the last stream opened at the third attempt
C10_Witness ==
    status = "running" /\ pc = "rep_ret" /\ cur = "r0" /\ fails = 2

(* ------------------------------------------------------------------ *)
(* Stream open and close contracts                                     *)
(* ------------------------------------------------------------------ *)

\* handle and period buffer both absent
FullyClosed(s) == handle[s] = "null" /\ period_buffer[s] = "null"

\* handle present and a buffer of exactly 2 * period_size bytes
FullyOpen(s) ==
    /\ handle[s] = "open"
    /\ period_buffer[s] = "alloc"
    /\ period_buffer_size[s] = 2 * period_size(s)

\* main() is inside a call of open_route_stream or close_route_stream
InOpenOrClose ==
    pc \in {"o_hw", "o_malloc", "o_sw", "c_close", "c_hnull", "c_free", "c_bnull"}

\* a failed open_route_stream has returned and the close_route_stream
\* that open_route_stream_repeated calls next has not begun
FailedOpenReturned == ctx = "open" /\ pc \in {"rep_check", "c_check"} /\ rc # 0

\* C11 (as claimed): when open_route_stream has returned a failure the
\* stream is closed, handle null and period buffer absent; and whenever
\* main() is not inside a call of open_route_stream or close_route_stream
\* every stream is either fully closed or fully open.
C11_OpenAllOrNothing ==
    MainRuns =>
      /\ pc = "rep_check" /\ rc # 0 => FullyClosed(cur)
      /\ ~InOpenOrClose => \A s \in Streams : FullyClosed(s) \/ FullyOpen(s)

\* C11 (amended): after a failed open_route_stream the stream is closed
\* once the close_route_stream call made next by
\* open_route_stream_repeated has returned; open_route_stream itself
\* returns with the stream closed only when snd_pcm_open failed; and
\* outside a call of open_route_stream or close_route_stream, and
\* outside that hand-over from the failed open to the close, every
\* stream is either fully closed or fully open.
C11_OpenThenCloseAllOrNothing ==
    MainRuns =>
      /\ pc = "rep_sleep" => FullyClosed(cur)
      /\ pc = "rep_check" /\ rc = ERR_PCM_OPEN_FAILED => FullyClosed(cur)
      /\ ~InOpenOrClose /\ ~FailedOpenReturned =>
           \A s \in Streams : FullyClosed(s) \/ FullyOpen(s)

\* the software parameters of p0 were refused and the close that
\* follows has returned
C11_Witness ==
    /\ MainRuns /\ pc = "rep_sleep" /\ cur = "p0"
    /\ rc = ERR_SW_PARAMS /\ FullyClosed("p0")

(* ------------------------------------------------------------------ *)
(* Transfer outcomes                                                   *)
(* ------------------------------------------------------------------ *)

\* the transient, fatal and short return codes of the two directions
TransientOutcome(kind) == IF kind = "rd" THEN ERR_READ_OVERRUN ELSE ERR_WRITE_UNDERRUN
FatalOutcome(kind) == IF kind = "rd" THEN ERR_READ ELSE ERR_WRITE
ShortOutcome(kind) == IF kind = "rd" THEN ERR_SHORT_READ ELSE ERR_SHORT_WRITE

\* C12: a transfer call returns 0 exactly when the device transferred
\* period_size frames; -EPIPE gives the overrun / underrun code with the
\* device prepared again; another negative result gives ERR_READ /
\* ERR_WRITE; a non-negative result other than period_size gives
\* ERR_SHORT_READ / ERR_SHORT_WRITE.
C12_TransferOutcome ==
    xfer.kind \in {"rd", "wr"} =>
      /\ xfer.ret = 0 <=> xfer.res = period_size(xfer.s)
      /\ xfer.res = -EPIPE =>
           xfer.ret = TransientOutcome(xfer.kind) /\ dev[xfer.s] = "ok"
      /\ xfer.res < 0 /\ xfer.res # -EPIPE => xfer.ret = FatalOutcome(xfer.kind)
      /\ xfer.res >= 0 /\ xfer.res # period_size(xfer.s) =>
           xfer.ret = ShortOutcome(xfer.kind)

\* a read of r1 has stored fewer frames than a period
C12_Witness ==
    /\ xfer.kind = "rd" /\ xfer.s = "r1"
    /\ xfer.res >= 0 /\ xfer.res < period_size("r1")
    /\ pc = "r1_ret"

(* ------------------------------------------------------------------ *)
(* The routing loop                                                    *)
(* ------------------------------------------------------------------ *)

\* both capture reads of this iteration returned 0
BothReadsOk == iter.rdOk = {"r0", "r1"}

\* the session is ending: the flag is set or the loop has been left
SessionTerminating == terminating # 0 \/ ctx = "end"

\* C13: started is 0 until the first iteration in which both reads
\* return 0; in that iteration "voice routing started" is written and
\* the next statement of main() sets started to 1; the line is written
\* at most once, started never goes back to 0, and once the flag is set
\* or the loop is left no further transfer is made and the session
\* stays terminating.
C13_SessionProgression ==
    [][/\ notified \in {0, 1} /\ notified' \in {0, 1}
       /\ notified # started => pc = "set_started" /\ notified = 1
       /\ started = 0 /\ BothReadsOk => pc \in {"r1_ret", "started", "set_started"}
       /\ notified' # notified =>
            /\ notified = 0 /\ started = 0
            /\ pc = "started" /\ BothReadsOk
            /\ pc' = "set_started"
       /\ started' # started =>
            /\ started = 0 /\ started' = 1
            /\ pc = "set_started" /\ BothReadsOk
            /\ notified = 1 /\ notified' = 1
       /\ pc = "started" /\ pc' # pc => started = 1 \/ pc' = "set_started"
       /\ pc = "set_started" /\ pc' # pc => started' = 1
       /\ SessionTerminating =>
            /\ SessionTerminating'
            /\ ioTick' = ioTick /\ wr' = wr /\ started' = started
            /\ notified' = notified]_vars

\* a later iteration with both reads successful, after the notification
C13_Witness ==
    /\ MainRuns /\ pc = "started" /\ BothReadsOk
    /\ started = 1 /\ notified = 1

\* the last transfer call was a successful read of r0
R0JustRead == xfer.kind = "rd" /\ xfer.s = "r0" /\ xfer.ret = 0

\* C14: in every iteration snd_pcm_readi on r0 comes first and on r1
\* only after it; snd_pcm_writei is called only when both reads returned
\* 0; after two successful reads main() goes on to write p0 and then,
\* whatever the write of p0 returned, p1, and only then to the loop head.
C14_IterationOrder ==
    [][ctx = "loop" /\ pc' # pc =>
         /\ pc = "rd_io" /\ cur = "r0" => iter.rdOk = {} /\ wr = NoWrites
         /\ pc = "rd_io" /\ cur = "r1" =>
              iter.rdOk = {"r0"} /\ R0JustRead /\ wr = NoWrites
         /\ pc = "wr_io" => BothReadsOk
         /\ pc = "r1_ret" /\ BothReadsOk => pc' = "started"
         /\ pc = "started" => pc' \in {"set_started", "cond"}
         /\ pc = "set_started" => pc' = "cond"
         /\ pc = "cond" => pc' = "wr_chk" /\ cur' = "p0" /\ wr = NoWrites
         /\ pc = "wr_chk" => pc' = "wr_io" /\ cur' = cur
         /\ pc = "wr_io" /\ cur = "p0" =>
              wr = NoWrites /\ wr'["p0"] # <<>> /\ wr'["p1"] = <<>>
         /\ pc = "wr_io" /\ cur = "p1" =>
              wr["p0"] # <<>> /\ wr["p1"] = <<>> /\ wr'["p1"] # <<>>
         /\ pc = "wr_io" => pc' = "wr_cls" /\ cur' = cur
         /\ pc = "wr_cls" => pc' = "wr_ret" /\ cur' = cur
         /\ pc = "wr_ret" /\ cur = "p0" => pc' = "wr_chk" /\ cur' = "p1"
         /\ pc = "wr_ret" /\ cur = "p1" => pc' = "while"]_vars

\* p1 is about to be written after the write of p0 failed fatally
C14_Witness ==
    /\ MainRuns /\ pc = "wr_io" /\ cur = "p1"
    /\ xfer.kind = "wr" /\ xfer.s = "p0" /\ xfer.ret = ERR_WRITE

\* main() executes the statement after route_stream_read(&r0) returned
AfterR0Read == MainRuns /\ ctx = "loop" /\ pc = "r0_ret" /\ pc' # pc

\* the failed read of r0 restarts the iteration: back to the loop head
\* with r1 not read and nothing written
IterationRestarted ==
    /\ pc' = "while"
    /\ iter.rdOk = {} /\ iter'.rdOk = {}
    /\ wr' = NoWrites /\ ioTick' = ioTick

\* the LEDs after a call of blink_aux(): as before, or toggled
LedsAfterBlink ==
    \/ UNCHANGED ledVars
    \/ aux_red_state' = 1 - aux_red_state /\ aux_green_state' = aux_red_state

\* C15 (as claimed): a non-zero return of the read of r0 restarts the
\* iteration at once, with r1 not read and nothing written, and
\* blink_aux() is called exactly when the return was ERR_READ_OVERRUN.
C15_BlinkOnOverrunOnly ==
    [][AfterR0Read =>
         /\ rc # 0 => IterationRestarted
         /\ iter'.blinked <=> rc = ERR_READ_OVERRUN]_vars

\* C15 (amended): a non-zero return of the read of r0 restarts the
\* iteration at once, with r1 not read and nothing written, and
\* blink_aux() is called for every non-zero return, overrun, short read
\* or fatal; after a return of 0 it is not called and r1 is read next.
C15_BlinkOnAnyFault ==
    [][AfterR0Read =>
         /\ rc # 0 => IterationRestarted /\ LedsAfterBlink
         /\ iter'.blinked <=> rc # 0
         /\ rc = 0 => pc' = "rd_chk" /\ cur' = "r1" /\ UNCHANGED ledVars]_vars

\* the iteration was restarted, with a call of blink_aux(), after a
\* short read of r0
C15_Witness ==
    /\ MainRuns /\ ctx = "loop" /\ pc = "while"
    /\ xfer.kind = "rd" /\ xfer.s = "r0" /\ xfer.ret = ERR_SHORT_READ
    /\ iter.blinked

\* main() takes a step of the loop in the speex build
SpeexLoopStep == aec = "speex" /\ MainRuns /\ ctx = "loop" /\ pc' # pc

\* what C16 says of the loop, but for the buffers the echo call reads:
\* speex_echo_cancellation runs once per iteration with two successful
\* reads, after the reads and before the writes; p0's buffer is changed
\* by nothing else between two runs; the bytes written to p1 are the
\* output of the call and the bytes written to p0 are those read from
\* r1 in this iteration
ConditionedForwarding ==
    /\ pc = "cond" =>
         /\ BothReadsOk /\ wr = NoWrites
         /\ iter.conds = 0 /\ iter'.conds = 1
         /\ contents'["p1"] = iter'.aecOut
    /\ pc # "cond" => iter'.conds = (IF pc = "while" THEN 0 ELSE iter.conds)
                      /\ contents'["p0"] = contents["p0"]
    /\ pc = "wr_io" => iter.conds = 1
    /\ pc = "wr_io" /\ cur = "p0" => wr'["p0"] = contents["r1"]
    /\ pc = "wr_io" /\ cur = "p1" => wr'["p1"] = iter.aecOut

\* C16 (as claimed): with speex compiled in, in every iteration with two
\* successful reads the echo call runs once, after the reads and before
\* the writes, reading r0's buffer and, as echo references, the buffers
\* of both p0 and p1 as the previous forwarding cycle left them; p1 is
\* written with the output of the call and p0 with the bytes read from r1.
C16_BothPlaybackBuffersAsReference ==
    [][SpeexLoopStep =>
         /\ ConditionedForwarding
         /\ pc = "cond" => iter'.aecIn = {"r0", "p0", "p1"}]_vars

\* C16 (amended): as above, but the echo call reads r0's buffer and, as
\* its one echo reference, p0's buffer as the previous forwarding cycle
\* left it; p1's buffer is not read, it receives the output.
C16_LocalPlaybackAsReference ==
    [][SpeexLoopStep =>
         /\ ConditionedForwarding
         /\ pc = "cond" => iter'.aecIn = {"r0", "p0"}]_vars

\* p1 is about to be written with an output of the echo call that
\* differs from the bytes read from r0, after p0 was written
C16_Witness ==
    /\ aec = "speex" /\ MainRuns /\ pc = "wr_io" /\ cur = "p1"
    /\ iter.conds = 1 /\ wr["p0"] = contents["r1"]
    /\ iter.aecOut = contents["p1"] /\ contents["p1"] # contents["r0"]

\* main() is inside close_route_stream, past the test of s->handle
CloseBody == {"c_close", "c_hnull", "c_free", "c_bnull"}

\* main() takes a step; cleanup() passes from one close to the next with
\* pc unchanged
MainStep == MainRuns /\ (pc' # pc \/ cur' # cur)

\* C17: close_route_stream on a closed stream returns at once, changing
\* and releasing nothing; on an open stream it releases the handle and
\* the period buffer, each once and each live, and returns with both
\* null; and a stream opened again after a close is fully open with a
\* buffer of 2 * period_size bytes.
C17_CloseIdempotent ==
    [][MainStep =>
         /\ pc = "c_check" /\ FullyClosed(cur) =>
              /\ UNCHANGED <<streamVars, doubleRel>>
              /\ pc' = AfterClosePc /\ cur' = AfterCloseCur
         /\ pc = "c_check" /\ ~FullyClosed(cur) => pc' = "c_close"
         /\ pc = "c_close" => handle[cur] = "open" /\ handle'[cur] # "open"
         /\ pc = "c_free" =>
              period_buffer[cur] = "alloc" /\ period_buffer'[cur] # "alloc"
         /\ pc \in CloseBody => ~doubleRel'
         /\ pc \in CloseBody \cup {"c_check"} /\ pc' \notin CloseBody =>
              handle'[cur] = "null" /\ period_buffer'[cur] = "null"
         /\ pc = "rep_check" /\ pc' = "rep_ret" =>
              /\ closes = fails
              /\ FullyOpen(cur)]_vars

\* the stream was closed twice in a row: after an attempt that failed
\* past snd_pcm_open and after one that failed in snd_pcm_open
C17_Witness ==
    /\ MainRuns /\ pc = "rep_sleep" /\ closes = 2
    /\ rc = ERR_PCM_OPEN_FAILED /\ FullyClosed(cur)

(* ------------------------------------------------------------------ *)
(* Startup                                                             *)
(* ------------------------------------------------------------------ *)

\* the streams that must be open before s is attempted, and those still
\* untouched then
OpenedBefore(s) ==
    CASE s = "p1" -> {}
      [] s = "r1" -> {"p1"}
      [] s = "p0" -> {"p1", "r1"}
      [] s = "r0" -> {"p1", "r1", "p0"}

OpenedAfter(s) == Streams \ (OpenedBefore(s) \cup {s})

\* C18: a stream's handle is opened only at startup, with every stream
\* before it in the order p1, r1, p0, r0 fully open and every stream
\* after it still closed; a stream that open_route_stream_repeated has
\* returned for is not opened again; so p0 and r0 are not attempted
\* before p1 and r1 are both fully open, whatever the number of retries.
C18_OpenOrder ==
    [][\A s \in Streams :
         /\ handle[s] # "open" /\ handle'[s] = "open" =>
              /\ ctx = "open" /\ pc = "o_pcm_open"
              /\ \A b \in OpenedBefore(s) : FullyOpen(b)
              /\ \A a \in OpenedAfter(s) : FullyClosed(a)
         /\ MainRuns /\ pc = "rep_ret" /\ cur = s /\ pc' # pc =>
              /\ FullyOpen(s)
              /\ \A b \in OpenedBefore(s) : FullyOpen(b)
              /\ \A a \in OpenedAfter(s) : FullyClosed(a)
              /\ IF s = "r0" THEN ctx' = "loop"
                 ELSE ctx' = "open" /\ OpenedBefore(cur') = OpenedBefore(s) \cup {s}]_vars

\* the third attempt on r1 is under way and the local pair is untouched
C18_Witness ==
    /\ MainRuns /\ ctx = "open" /\ pc = "o_hw" /\ cur = "r1" /\ fails = 2
    /\ FullyOpen("p1") /\ FullyClosed("p0") /\ FullyClosed("r0")

(* ------------------------------------------------------------------ *)
(* reduce_echo in the loop                                             *)
(* ------------------------------------------------------------------ *)

\* every sample is 0
Silent(buf) == \A i \in 1..Len(buf) : buf[i] = 0

\* out is buf made louder: no sample changes sign or loses magnitude
Amplified(buf, out) ==
    /\ Len(out) = Len(buf)
    /\ \A i \in 1..Len(buf) :
         /\ Abs(out[i]) >= Abs(buf[i])
         /\ (buf[i] > 0 => out[i] > 0)
         /\ (buf[i] < 0 => out[i] < 0)

\* main() has just run the walkie-talkie block on this iteration's reads:
\* r1's and r0's buffers still hold what was copied to p0 and p1
AfterReduceEcho ==
    /\ aec = "walkie" /\ MainRuns /\ ctx = "loop"
    /\ pc = "wr_chk" /\ cur = "p0" /\ iter.conds = 1

\* C19: with E0 and E1 the sums of absolute sample values of the two
\* buffers given to reduce_echo: if E0 - E1 > 10000 the second buffer is
\* silenced and the first amplified; if E0 - E1 < -10000 the first is
\* silenced and the second amplified; otherwise both are unchanged; and
\* the LEDs show the branch taken, both off in the last case.
C19_EnergyHeuristic ==
    AfterReduceEcho =>
      LET in0 == contents["r1"]
          in1 == contents["r0"]
          E0 == SumAbs(in0, Len(in0))
          E1 == SumAbs(in1, Len(in1))
          leds == <<aux_red_state, aux_green_state>>
      IN  /\ E0 - E1 > 10000 =>
               /\ Amplified(in0, contents["p0"])
               /\ Silent(contents["p1"])
               /\ leds = <<0, 1>>
          /\ E0 - E1 < -10000 =>
               /\ Silent(contents["p0"])
               /\ Amplified(in1, contents["p1"])
               /\ leds = <<1, 0>>
          /\ E0 - E1 <= 10000 /\ E0 - E1 >= -10000 =>
               /\ contents["p0"] = in0
               /\ contents["p1"] = in1
               /\ leds = <<0, 0>>

(* ------------------------------------------------------------------ *)
(* The log file                                                        *)
(* ------------------------------------------------------------------ *)

\* positions of main() whose statement does not touch logfile: before
\* "logfile = stderr", and after the fclose of cleanup()
NoLogUse == {"m_blink", "m_logfile", "e_return", "done"}

\* C20: logfile is open whenever a statement is about to write to it or
\* close it: when the signal handler is about to run its fprintf and
\* cleanup(), and at every statement of main() from the first fprintf
\* to the fclose of cleanup().
C20_LogSinkLifetime ==
    status = "running" =>
      /\ hpc = "handler" => logfile = "open"
      /\ hpc = "idle" /\ pc \notin NoLogUse => logfile = "open"

(* ------------------------------------------------------------------ *)
(* Buffers are filled before they are used                             *)
(* ------------------------------------------------------------------ *)

\* the buffer holds no byte left over from malloc
Filled(buf) == buf # <<>> /\ \A i \in 1..Len(buf) : buf[i] # Indet

\* C21: in every build and every iteration, the first forwarding cycle
\* included, a playback buffer that is about to be given to
\* snd_pcm_writei, or to speex_echo_cancellation as the echo reference,
\* holds no uninitialised byte left by the malloc of open_route_stream.
C21_NoBufferUsedBeforeFilled ==
    MainRuns /\ ctx = "loop" =>
      /\ pc = "wr_io" => Filled(contents[cur])
      /\ pc = "cond" /\ aec = "speex" =>
           \A s \in EchoInputs : Filled(contents[s])

====
